---------------------------- MODULE Spec2Model ----------------------------
(***************************************************************************)
(* MM-IM remediator (src/app/main.py).                                     *)
(*                                                                         *)
(* A text is a sequence of characters, each character a one-character      *)
(* string; KELVIN stands for the single character U+212A.  Offsets are the *)
(* source's: 0-based, spans half-open, Slice(s, a, b) is s[a:b].           *)
(***************************************************************************)
EXTENDS Integers, Sequences, FiniteSets

VARIABLES
    clock,             \* the date datetime.today() returns when it is read
    ticks,             \* how many times the date has changed
    pass,              \* 1: the client's request; 2: its remediated code sent again
    units,             \* the request body of remediate_mm_im
    results,           \* remediate_mm_im: results
    ui,                \* remediate_mm_im: position of `for u in units` (1-based)
    pc,                \* "loop" | "scan" | "done"
    txt,               \* remediate_code: txt
    matches,           \* remediate_code: matches
    mi,                \* remediate_code: position of `for m in matches` (1-based)
    last_idx,          \* remediate_code: last_idx
    remediated_parts,  \* remediate_code: remediated_parts
    issues,            \* remediate_code: issues
    today,             \* remediate_code: today
    calls              \* every call of remediate_code made so far: argument, date, return value

vars == << clock, ticks, pass, units, results, ui, pc, txt, matches, mi,
           last_idx, remediated_parts, issues, today, calls >>

-----------------------------------------------------------------------------
(* Bounds of the model.                                                    *)

MaxFrags == 3
MaxUnits == 2
MaxTicks == 1
PadLen   == 61

-----------------------------------------------------------------------------
(* Characters.                                                             *)

KELVIN == "<U+212A>"

UPPER == << "A", "B", "C", "D", "E", "F", "G", "H", "I", "J", "K", "L", "M",
            "N", "O", "P", "Q", "R", "S", "T", "U", "V", "W", "X", "Y", "Z" >>
LOWER == << "a", "b", "c", "d", "e", "f", "g", "h", "i", "j", "k", "l", "m",
            "n", "o", "p", "q", "r", "s", "t", "u", "v", "w", "x", "y", "z" >>
DIGITS == << "0", "1", "2", "3", "4", "5", "6", "7", "8", "9" >>

Range(s) == { s[i] : i \in DOMAIN s }
IndexOf(c, s) == CHOOSE i \in DOMAIN s : s[i] = c

Max(a, b) == IF a >= b THEN a ELSE b
Min(a, b) == IF a <= b THEN a ELSE b
SetMin(S) == CHOOSE x \in S : \A y \in S : x <= y
SetMax(S) == CHOOSE x \in S : \A y \in S : x >= y

\* s[a:b] for 0 <= a, b <= len(s)
Slice(s, a, b) == SubSeq(s, a + 1, b)

\* "".join(parts)
RECURSIVE Join(_)
Join(parts) == IF parts = << >> THEN << >> ELSE Head(parts) \o Join(Tail(parts))

LowerSet == Range(LOWER)
UpperSet == Range(UPPER)
UpperOf  == [ c \in LowerSet |-> UPPER[IndexOf(c, LOWER)] ]
LowerOf  == [ c \in UpperSet |-> LOWER[IndexOf(c, UPPER)] ]

\* str.upper() of one character: U+212A is upper case already and stays itself
UpperChar(c) == IF c \in LowerSet THEN UpperOf[c] ELSE c

\* str.upper(): no character of the texts changes the length
Upper(s) == [ i \in DOMAIN s |-> UpperChar(s[i]) ]

\* a comparison that tells upper case from lower case, as without re.IGNORECASE
FoldChar_CaseSensitive(c) == c

\* the lower-casing re.IGNORECASE compares with: U+212A lowers to "k"
FoldChar(c) ==
    IF c \in UpperSet THEN LowerOf[c]
    ELSE IF c = KELVIN THEN "k" ELSE c

\* \w, of the characters that occur in the texts
WordChars == UpperSet \cup LowerSet \cup Range(DIGITS) \cup { "_", KELVIN }
IsWord(c) == c \in WordChars

\* \s, of the characters that occur in the texts
SpaceChars == { " ", "\t", "\n", "\r", "\f" }
IsSpace(c) == c \in SpaceChars

\* \b at offset p of s: exactly one side of the offset is a word character
IsWordAt(s, p) == p >= 0 /\ p < Len(s) /\ IsWord(s[p + 1])
WordBoundary(s, p) == IsWordAt(s, p - 1) # IsWordAt(s, p)

\* the literal lit stands at offset p of s
LitAt(lit, s, p) ==
    /\ p + Len(lit) <= Len(s)
    /\ \A j \in 1 .. Len(lit) : s[p + j] = lit[j]

\* the literal lit stands at offset p of s under re.IGNORECASE
LitAtIgnoreCase(lit, s, p) ==
    /\ p + Len(lit) <= Len(s)
    /\ \A j \in 1 .. Len(lit) : FoldChar(s[p + j]) = FoldChar(lit[j])

\* the offset a greedy \s* or \s+ started at offset p stops at
RECURSIVE SkipSpace(_, _)
SkipSpace(s, p) == IF p < Len(s) /\ IsSpace(s[p + 1]) THEN SkipSpace(s, p + 1) ELSE p

-----------------------------------------------------------------------------
(* Reference mappings.                                                     *)

None == << "<None>" >>

CORE_DOC_MAP ==
   << [name |-> <<"M", "K", "P", "F">>, new |-> <<"M", "A", "T", "D", "O", "C">>,
       note |-> "Header data no longer stored separately. Still exists as DDIC object, but only read via CDS view NSDM_DDL_MKPF."],
      [name |-> <<"M", "S", "E", "G">>, new |-> <<"M", "A", "T", "D", "O", "C">>,
       note |-> "Item + header + attributes merged. Proxy CDS: NSDM_DDL_MSEG."] >>

HYBRID_MAP ==
   << [name |-> <<"M", "A", "R", "C">>, new |-> <<"N", "S", "D", "M", "_", "V", "_", "M", "A", "R", "C">>,
       note |-> "Plant Data for Material now redirected to CDS views."],
      [name |-> <<"M", "A", "R", "D">>, new |-> <<"N", "S", "D", "M", "_", "V", "_", "M", "A", "R", "D">>,
       note |-> "Storage location data no longer persisted."],
      [name |-> <<"M", "C", "H", "B">>, new |-> <<"N", "S", "D", "M", "_", "V", "_", "M", "C", "H", "B">>,
       note |-> "Batch stock quantities derived from MATDOC."],
      [name |-> <<"M", "K", "O", "L">>, new |-> <<"N", "S", "D", "M", "_", "V", "_", "M", "K", "O", "L">>,
       note |-> "Special stocks from vendor redirected."],
      [name |-> <<"M", "S", "L", "B">>, new |-> <<"N", "S", "D", "M", "_", "V", "_", "M", "S", "L", "B">>,
       note |-> "Special stocks with vendor derived from MATDOC."],
      [name |-> <<"M", "S", "K", "A">>, new |-> <<"N", "S", "D", "M", "_", "V", "_", "M", "S", "K", "A">>,
       note |-> "Sales order stock redirected."],
      [name |-> <<"M", "S", "P", "R">>, new |-> <<"N", "S", "D", "M", "_", "V", "_", "M", "S", "P", "R">>,
       note |-> "Project stock aggregated on the fly."],
      [name |-> <<"M", "S", "K", "U">>, new |-> <<"N", "S", "D", "M", "_", "V", "_", "M", "S", "K", "U">>,
       note |-> "Special stocks with customer from MATDOC."] >>

AGGR_MAP ==
   << [name |-> <<"M", "S", "S", "A">>, new |-> <<"N", "S", "D", "M", "_", "V", "_", "M", "S", "S", "A">>,
       note |-> "Customer order totals replaced by CDS view."],
      [name |-> <<"M", "S", "S", "L">>, new |-> <<"N", "S", "D", "M", "_", "V", "_", "M", "S", "S", "L">>,
       note |-> "Special stocks with vendor totals replaced by CDS view."],
      [name |-> <<"M", "S", "S", "Q">>, new |-> <<"N", "S", "D", "M", "_", "V", "_", "M", "S", "S", "Q">>,
       note |-> "Project stock totals replaced by CDS view."],
      [name |-> <<"M", "S", "T", "B">>, new |-> <<"N", "S", "D", "M", "_", "V", "_", "M", "S", "T", "B">>,
       note |-> "Stock in transit replaced by CDS view."],
      [name |-> <<"M", "S", "T", "E">>, new |-> <<"N", "S", "D", "M", "_", "V", "_", "M", "S", "T", "E">>,
       note |-> "Stock in transit (SD Doc) replaced by CDS view."],
      [name |-> <<"M", "S", "T", "Q">>, new |-> <<"N", "S", "D", "M", "_", "V", "_", "M", "S", "T", "Q">>,
       note |-> "Stock in transit for project replaced by CDS view."] >>

DIMP_MAP ==
   << [name |-> <<"M", "C", "S", "D">>, new |-> <<"N", "S", "D", "M", "_", "V", "_", "M", "C", "S", "D">>,
       note |-> "Customer Stock split: stock <U+2192> MATDOC, master <U+2192> MCSD_MD."],
      [name |-> <<"M", "C", "S", "S">>, new |-> <<"N", "S", "D", "M", "_", "V", "_", "M", "C", "S", "S">>,
       note |-> "Customer Stock Total split: stock <U+2192> MATDOC, master <U+2192> MCSS_MD."],
      [name |-> <<"M", "S", "C", "D">>, new |-> <<"N", "S", "D", "M", "_", "V", "_", "M", "S", "C", "D">>,
       note |-> "Customer Stock with Vendor split into MATDOC + MSCD_MD."],
      [name |-> <<"M", "S", "C", "S">>, new |-> <<"N", "S", "D", "M", "_", "V", "_", "M", "S", "C", "S">>,
       note |-> "Cust. Stock with Vendor Total split into MATDOC + MSCS_MD."],
      [name |-> <<"M", "S", "F", "D">>, new |-> <<"N", "S", "D", "M", "_", "V", "_", "M", "S", "F", "D">>,
       note |-> "Sales Order Stock with Vendor split into MATDOC + MSFD_MD."],
      [name |-> <<"M", "S", "F", "S">>, new |-> <<"N", "S", "D", "M", "_", "V", "_", "M", "S", "F", "S">>,
       note |-> "Sales Order Stock with Vendor Total split into MATDOC + MSFS_MD."],
      [name |-> <<"M", "S", "I", "D">>, new |-> <<"N", "S", "D", "M", "_", "V", "_", "M", "S", "I", "D">>,
       note |-> "Vendor Stock split into MATDOC + MSID_MD."],
      [name |-> <<"M", "S", "I", "S">>, new |-> <<"N", "S", "D", "M", "_", "V", "_", "M", "S", "I", "S">>,
       note |-> "Vendor Stock Total split into MATDOC + MSIS_MD."],
      [name |-> <<"M", "S", "R", "D">>, new |-> <<"N", "S", "D", "M", "_", "V", "_", "M", "S", "R", "D">>,
       note |-> "Project Stock with Vendor split into MATDOC + MSRD_MD."],
      [name |-> <<"M", "S", "R", "S">>, new |-> <<"N", "S", "D", "M", "_", "V", "_", "M", "S", "R", "S">>,
       note |-> "Project Stock with Vendor Total split into MATDOC + MSRS_MD."] >>

HISTORY_MAP ==
   << [name |-> <<"M", "A", "R", "C", "H">>, new |-> <<"N", "S", "D", "M", "_", "V", "_", "M", "A", "R", "C", "H">>,
       note |-> "MARC History redirected to CDS."],
      [name |-> <<"M", "A", "R", "D", "H">>, new |-> <<"N", "S", "D", "M", "_", "V", "_", "M", "A", "R", "D", "H">>,
       note |-> "MARD History redirected to CDS."],
      [name |-> <<"M", "C", "H", "B", "H">>, new |-> <<"N", "S", "D", "M", "_", "V", "_", "M", "C", "H", "B", "H">>,
       note |-> "MCHB History redirected to CDS."],
      [name |-> <<"M", "K", "O", "L", "H">>, new |-> <<"N", "S", "D", "M", "_", "V", "_", "M", "K", "O", "L", "H">>,
       note |-> "MKOL History redirected to CDS."],
      [name |-> <<"M", "S", "L", "B", "H">>, new |-> <<"N", "S", "D", "M", "_", "V", "_", "M", "S", "L", "B", "H">>,
       note |-> "MSLB History redirected to CDS."],
      [name |-> <<"M", "S", "K", "A", "H">>, new |-> <<"N", "S", "D", "M", "_", "V", "_", "M", "S", "K", "A", "H">>,
       note |-> "MSKA History redirected to CDS."],
      [name |-> <<"M", "S", "S", "A", "H">>, new |-> <<"N", "S", "D", "M", "_", "V", "_", "M", "S", "S", "A", "H">>,
       note |-> "MSSA History redirected to CDS."],
      [name |-> <<"M", "S", "P", "R", "H">>, new |-> <<"N", "S", "D", "M", "_", "V", "_", "M", "S", "P", "R", "H">>,
       note |-> "MSPR History redirected to CDS."],
      [name |-> <<"M", "S", "S", "Q", "H">>, new |-> <<"N", "S", "D", "M", "_", "V", "_", "M", "S", "S", "Q", "H">>,
       note |-> "MSSQ History redirected to CDS."],
      [name |-> <<"M", "S", "K", "U", "H">>, new |-> <<"N", "S", "D", "M", "_", "V", "_", "M", "S", "K", "U", "H">>,
       note |-> "MSKU History redirected to CDS."],
      [name |-> <<"M", "S", "T", "B", "H">>, new |-> <<"N", "S", "D", "M", "_", "V", "_", "M", "S", "T", "B", "H">>,
       note |-> "MSTB History redirected to CDS."],
      [name |-> <<"M", "S", "T", "E", "H">>, new |-> <<"N", "S", "D", "M", "_", "V", "_", "M", "S", "T", "E", "H">>,
       note |-> "MSTE History redirected to CDS."],
      [name |-> <<"M", "S", "T", "Q", "H">>, new |-> <<"N", "S", "D", "M", "_", "V", "_", "M", "S", "T", "Q", "H">>,
       note |-> "MSTQ History redirected to CDS."],
      [name |-> <<"M", "C", "S", "D", "H">>, new |-> <<"N", "S", "D", "M", "_", "V", "_", "M", "C", "S", "D", "H">>,
       note |-> "MCSD History redirected to CDS."],
      [name |-> <<"M", "C", "S", "S", "H">>, new |-> <<"N", "S", "D", "M", "_", "V", "_", "M", "C", "S", "S", "H">>,
       note |-> "MCSS History redirected to CDS."],
      [name |-> <<"M", "S", "C", "D", "H">>, new |-> <<"N", "S", "D", "M", "_", "V", "_", "M", "S", "C", "D", "H">>,
       note |-> "MSCD History redirected to CDS."],
      [name |-> <<"M", "S", "F", "D", "H">>, new |-> <<"N", "S", "D", "M", "_", "V", "_", "M", "S", "F", "D", "H">>,
       note |-> "MSFD History redirected to CDS."],
      [name |-> <<"M", "S", "I", "D", "H">>, new |-> <<"N", "S", "D", "M", "_", "V", "_", "M", "S", "I", "D", "H">>,
       note |-> "MSID History redirected to CDS."],
      [name |-> <<"M", "S", "R", "D", "H">>, new |-> <<"N", "S", "D", "M", "_", "V", "_", "M", "S", "R", "D", "H">>,
       note |-> "MSRD History redirected to CDS."] >>

\* {**CORE_DOC_MAP, **HYBRID_MAP, **AGGR_MAP, **DIMP_MAP, **HISTORY_MAP}, in insertion order
TABLE_MAP == CORE_DOC_MAP \o HYBRID_MAP \o AGGR_MAP \o DIMP_MAP \o HISTORY_MAP

\* TABLE_MAP.keys()
Keys == [ i \in DOMAIN TABLE_MAP |-> TABLE_MAP[i].name ]

\* name in TABLE_MAP
HasKey(name) == \E i \in DOMAIN TABLE_MAP : TABLE_MAP[i].name = name

\* TABLE_MAP.get(name): the entry, or None
Get(name) ==
    IF HasKey(name)
    THEN TABLE_MAP[CHOOSE i \in DOMAIN TABLE_MAP : TABLE_MAP[i].name = name]
    ELSE None

\* sorted(keys, key=len, reverse=True): a stable sort, longest names first
RECURSIVE SortedByLenDesc(_, _)
SortedByLenDesc(keys, n) ==
    IF n = 0 THEN << >>
    ELSE SelectSeq(keys, LAMBDA k : Len(k) = n) \o SortedByLenDesc(keys, n - 1)

LongestKey == CHOOSE n \in { Len(Keys[i]) : i \in DOMAIN Keys } :
                  \A i \in DOMAIN Keys : Len(Keys[i]) <= n

TABLE_NAMES == SortedByLenDesc(Keys, LongestKey)

-----------------------------------------------------------------------------
(* Regex.                                                                  *)

\* TABLE_RE without its leading \b
TABLE_RE_at_NoLeadingBoundary(s, pos) ==
    LET hit(k) == /\ LitAtIgnoreCase(TABLE_NAMES[k], s, pos)
                  /\ WordBoundary(s, pos + Len(TABLE_NAMES[k]))
        hits   == { k \in DOMAIN TABLE_NAMES : hit(k) }
    IN  IF hits = {} THEN -1
        ELSE pos + Len(TABLE_NAMES[CHOOSE k \in hits : \A h \in hits : k <= h])

\* TABLE_RE without its trailing \b
TABLE_RE_at_NoTrailingBoundary(s, pos) ==
    IF ~ WordBoundary(s, pos) THEN -1
    ELSE LET hits == { k \in DOMAIN TABLE_NAMES : LitAtIgnoreCase(TABLE_NAMES[k], s, pos) }
         IN  IF hits = {} THEN -1
             ELSE pos + Len(TABLE_NAMES[CHOOSE k \in hits : \A h \in hits : k <= h])

\* TABLE_RE tried at offset pos: the end of the match, or -1.  The alternatives are
\* tried in the order of TABLE_NAMES and the first one followed by \b wins.
TABLE_RE_at(s, pos) ==
    IF ~ WordBoundary(s, pos) THEN -1
    ELSE LET hit(k) == /\ LitAtIgnoreCase(TABLE_NAMES[k], s, pos)
                       /\ WordBoundary(s, pos + Len(TABLE_NAMES[k]))
             hits   == { k \in DOMAIN TABLE_NAMES : hit(k) }
         IN  IF hits = {} THEN -1
             ELSE pos + Len(TABLE_NAMES[CHOOSE k \in hits : \A h \in hits : k <= h])

\* the offsets at which TABLE_RE matches
MatchStarts(s) == { p \in 0 .. Len(s) - 1 : TABLE_RE_at(s, p) # -1 }

\* the search from offset pos on, starts being the offsets at which TABLE_RE matches:
\* the leftmost match at or after pos, then the search resumed at its end
RECURSIVE Search(_, _, _)
Search(s, starts, pos) ==
    LET ahead == { p \in starts : p >= pos }
    IN  IF ahead = {} THEN << >>
        ELSE LET p == SetMin(ahead)
                 e == TABLE_RE_at(s, p)
             IN  << [start |-> p, end |-> e, name |-> Slice(s, p, e)] >>
                     \o Search(s, ahead, e)

\* TABLE_RE.finditer(s) from offset pos on: the matches, left to right, not overlapping
finditer(s, pos) == Search(s, MatchStarts(s), pos)

\* sorted(ms, key=lambda x: x.start()): a stable insertion sort
RECURSIVE SortedByStart(_)
SortedByStart(ms) ==
    IF ms = << >> THEN << >>
    ELSE LET rest == SortedByStart(Tail(ms))
             h    == Head(ms)
         IN  SelectSeq(rest, LAMBDA x : x.start < h.start) \o << h >>
                 \o SelectSeq(rest, LAMBDA x : x.start >= h.start)

-----------------------------------------------------------------------------
(* Helpers.                                                                *)

Radius == 60

\* a snippet that stops at the end of the match
snippet_at_NoRightWindow(text, start, end) ==
    Slice(text, Max(0, start - Radius), Min(Len(text), end))

snippet_at(text, start, end) ==
    LET s == Max(0, start - Radius)
        e == Min(Len(text), end + Radius)
    IN  Slice(text, s, e)

\* _add_hit putting the new hit first
add_hit_Prepend(hits, span, target_name, suggested_statement, src, note) ==
    << [ table               |-> target_name,
         target_type         |-> "Table",
         target_name         |-> target_name,
         used_fields         |-> << >>,
         ambiguous           |-> FALSE,
         suggested_statement |-> suggested_statement,
         suggested_fields    |-> None,
         snippet             |-> Slice(src, Max(0, span[1] - Radius),
                                       Min(Len(src), span[2] + Radius)),
         note                |-> note ] >> \o hits

\* hits after _add_hit(hits, span, target_name, suggested_statement, src, note)
add_hit(hits, span, target_name, suggested_statement, src, note) ==
    LET meta == [ table               |-> target_name,
                  target_type         |-> "Table",
                  target_name         |-> target_name,
                  used_fields         |-> << >>,
                  ambiguous           |-> FALSE,
                  suggested_statement |-> suggested_statement,
                  suggested_fields    |-> None,
                  snippet             |-> snippet_at(src, span[1], span[2]) ]
    IN  IF note # ""
        THEN Append(hits, [ k \in DOMAIN meta \cup { "note" } |->
                              IF k = "note" THEN note ELSE meta[k] ])
        ELSE Append(hits, meta)

-----------------------------------------------------------------------------
(* remediate_code.                                                         *)

kwUPDATE == << "U", "P", "D", "A", "T", "E" >>
kwMODIFY == << "M", "O", "D", "I", "F", "Y" >>
kwDELETE == << "D", "E", "L", "E", "T", "E" >>
kwFROM   == << "F", "R", "O", "M" >>

\* datetime.today().strftime("%Y-%m-%d")
Digit(n) == DIGITS[n + 1]
strftime(d) ==
    << Digit(d.y \div 1000), Digit((d.y \div 100) % 10), Digit((d.y \div 10) % 10),
       Digit(d.y % 10), "-", Digit(d.m \div 10), Digit(d.m % 10), "-",
       Digit(d.d \div 10), Digit(d.d % 10) >>

\* f'\n" Changed by PwC on {today}\n'
change_marker(day) ==
    << "\n", "\"", " ", "C", "h", "a", "n", "g", "e", "d", " ", "b", "y", " ",
       "P", "w", "C", " ", "o", "n", " " >> \o day \o << "\n" >>

txtReplaced == << "R", "e", "p", "l", "a", "c", "e", "d", " " >>
txtWith     == << " ", "w", "i", "t", "h", " " >>

\* f"Replaced {name} with {replacement}."
suggested_statement(name, replacement) ==
    txtReplaced \o name \o txtWith \o replacement \o << "." >>

\* s.rfind("\n", 0, hi)
rfind_nl(s, hi) ==
    LET at == { i \in 0 .. hi - 1 : s[i + 1] = "\n" }
    IN  IF at = {} THEN -1 ELSE SetMax(at)

\* s.find("\n", lo)
find_nl(s, lo) ==
    LET at == { i \in lo .. Len(s) - 1 : s[i + 1] = "\n" }
    IN  IF at = {} THEN -1 ELSE SetMin(at)

\* line: the upper-cased line of s around the match m
LineOf(s, m) ==
    LET line_start == rfind_nl(s, m.start) + 1
        found      == find_nl(s, m.end)
        line_end   == IF found = -1 THEN Len(s) ELSE found
    IN  Upper(Slice(s, line_start, line_end))

\* re.match(r"\s*(UPDATE|MODIFY)\s+" + name + r"\b", line)
MatchUpdateModify(name, line) ==
    LET p == SkipSpace(line, 0)
        q == p + Len(kwUPDATE)
        r == SkipSpace(line, q)
    IN  /\ LitAt(kwUPDATE, line, p) \/ LitAt(kwMODIFY, line, p)
        /\ r > q
        /\ LitAt(name, line, r)
        /\ WordBoundary(line, r + Len(name))

\* re.match(r"\s*DELETE\s+FROM\s+" + name + r"\b", line)
MatchDeleteFrom(name, line) ==
    LET p == SkipSpace(line, 0)
        q == p + Len(kwDELETE)
        r == SkipSpace(line, q)
        t == r + Len(kwFROM)
        v == SkipSpace(line, t)
    IN  /\ LitAt(kwDELETE, line, p)
        /\ r > q
        /\ LitAt(kwFROM, line, r)
        /\ v > t
        /\ LitAt(name, line, v)
        /\ WordBoundary(line, v + Len(name))

\* a condition that looks at the keyword and not at the table
IsProtected_AnyTable(name, line) ==
    LET p == SkipSpace(line, 0)
    IN  LitAt(kwUPDATE, line, p) \/ LitAt(kwMODIFY, line, p) \/ LitAt(kwDELETE, line, p)

\* the condition of the `if` that skips UPDATE/DELETE/MODIFY statements
IsProtected(name, line) == MatchUpdateModify(name, line) \/ MatchDeleteFrom(name, line)

\* name = m.group("name").upper()
NameOf(m) == Upper(m.name)

\* which branch of the loop body the match m of s takes
Branch(s, m) ==
    IF ~ HasKey(NameOf(m)) THEN "skip"    \* info = TABLE_MAP.get(name) is None
    ELSE IF IsProtected(NameOf(m), LineOf(s, m)) THEN "protected"
    ELSE "replace"

\* The loop body for a match with no Reference Entry: `continue`.
StepSkip(st) == st

\* a protected branch that copies the text and leaves the cursor where it was
StepProtected_NoAdvance(s, st, m) ==
    [ st EXCEPT !.remediated_parts = Append(@, Slice(s, st.last_idx, m.end)) ]

\* The loop body for a match in an UPDATE/MODIFY/DELETE FROM line of its table.
StepProtected(s, st, m) ==
    [ st EXCEPT !.last_idx = m.end,
                !.remediated_parts = Append(@, Slice(s, st.last_idx, m.end)) ]

\* a replacement whose issue is filed under the replacement name
StepReplace_TargetNew(s, marker, st, m) ==
    LET name        == NameOf(m)
        info        == Get(name)
        replacement == info.new
    IN  [ last_idx         |-> m.end,
          remediated_parts |-> st.remediated_parts
                                 \o << Slice(s, st.last_idx, m.start), replacement, marker >>,
          issues           |-> add_hit(st.issues, << m.start, m.end >>, replacement,
                                       suggested_statement(name, replacement), s,
                                       info.note) ]

\* The loop body for a normal replacement.
StepReplace(s, marker, st, m) ==
    LET name        == NameOf(m)
        info        == Get(name)
        replacement == info.new
    IN  [ last_idx         |-> m.end,
          remediated_parts |-> st.remediated_parts
                                 \o << Slice(s, st.last_idx, m.start), replacement, marker >>,
          issues           |-> add_hit(st.issues, << m.start, m.end >>, name,
                                       suggested_statement(name, replacement), s,
                                       info.note) ]

\* one iteration of `for m in matches`
Step(s, marker, st, m) ==
    CASE Branch(s, m) = "skip"      -> StepSkip(st)
      [] Branch(s, m) = "protected" -> StepProtected(s, st, m)
      [] Branch(s, m) = "replace"   -> StepReplace(s, marker, st, m)

\* the state of the scan before the first iteration
ScanStart == [ last_idx |-> 0, remediated_parts |-> << >>, issues |-> << >> ]

\* the return value once the loop has ended in state st
Finish(s, st) ==
    [ new_txt |-> Join(Append(st.remediated_parts, Slice(s, st.last_idx, Len(s)))),
      issues  |-> st.issues ]

RECURSIVE Scan(_, _, _, _)
Scan(s, marker, st, ms) ==
    IF ms = << >> THEN st ELSE Scan(s, marker, Step(s, marker, st, Head(ms)), Tail(ms))

\* remediate_code(s) when strftime gives day: [new_txt, issues]
remediate_with(s, day) ==
    IF s = << >> THEN [ new_txt |-> s, issues |-> << >> ]
    ELSE Finish(s, Scan(s, change_marker(day), ScanStart, SortedByStart(finditer(s, 0))))

\* remediate_code(s) called on the date d
remediate_code(s, d) == remediate_with(s, strftime(d))

-----------------------------------------------------------------------------
(* The inputs: texts put together from at most MaxFrags fragments.         *)

fUpdateMseg  == << "U", "P", "D", "A", "T", "E", " ", "M", "S", "E", "G" >>
fUpdate      == << "U", "P", "D", "A", "T", "E" >>
fModify      == << "m", "o", "d", "i", "f", "y" >>
fDeleteFrom  == << "D", "e", "l", "e", "t", "e", " ", "F", "r", "o", "m" >>
fMseg        == << " ", "M", "S", "E", "G" >>
fMard        == << " ", "m", "a", "r", "d" >>
fMarc        == << "M", "A", "R", "C" >>
fKelvin      == << "M", KELVIN, "P", "F" >>
fPad         == [ i \in 1 .. PadLen |-> "." ]

Fragments ==
    { fUpdateMseg, fModify, fDeleteFrom, fMseg, fMard, fMarc, fKelvin,
      << "H" >>, << "\n" >>, << "\t" >>, fPad }

RECURSIVE TextsOf(_)
TextsOf(n) ==
    IF n = 0 THEN { << >> }
    ELSE LET shorter == TextsOf(n - 1)
         IN  shorter \cup { t \o f : t \in shorter, f \in Fragments }

Texts == TextsOf(MaxFrags)

\* the original_code values of the batches
BatchCodes == { None, << >>, fUpdate, fUpdateMseg, fMard, fMarc \o << "H" >>, fKelvin }

PgmNames == << "P1", "P2", "P3", "P4" >>

\* Unit: the fields the handler reads or copies
Unit(k, code) == [ pgm_name |-> PgmNames[k], original_code |-> code ]

Batches ==
    UNION { { [ k \in 1 .. n |-> Unit(k, c[k]) ] : c \in [ 1 .. n -> BatchCodes ] }
            : n \in 0 .. MaxUnits }

-----------------------------------------------------------------------------
(* The date.                                                               *)

IsLeap(y) == (y % 4 = 0 /\ y % 100 # 0) \/ y % 400 = 0

DaysIn(y, m) ==
    IF m = 2 THEN (IF IsLeap(y) THEN 29 ELSE 28)
    ELSE IF m \in { 4, 6, 9, 11 } THEN 30 ELSE 31

NextDay(d) ==
    IF d.d < DaysIn(d.y, d.m) THEN [ d EXCEPT !.d = @ + 1 ]
    ELSE IF d.m < 12 THEN [ y |-> d.y, m |-> d.m + 1, d |-> 1 ]
    ELSE [ y |-> d.y + 1, m |-> 1, d |-> 1 ]

StartDates == { [ y |-> 2025, m |-> 2, d |-> 28 ], [ y |-> 2025, m |-> 12, d |-> 31 ] }

-----------------------------------------------------------------------------
(* The state machine.                                                      *)

NoLocals ==
    /\ txt = << >>
    /\ matches = << >>
    /\ mi = 1
    /\ last_idx = 0
    /\ remediated_parts = << >>
    /\ issues = << >>
    /\ today = << >>

ClearLocals ==
    /\ txt' = << >>
    /\ matches' = << >>
    /\ mi' = 1
    /\ last_idx' = 0
    /\ remediated_parts' = << >>
    /\ issues' = << >>
    /\ today' = << >>

InitRequest(batch, date) ==
    /\ clock = date
    /\ ticks = 0
    /\ pass = 1
    /\ units = batch
    /\ results = << >>
    /\ ui = 1
    /\ pc = "loop"
    /\ NoLocals
    /\ calls = << >>

\* one unit, any text
Init ==
    \E code \in Texts \cup { None } :
        InitRequest(<< Unit(1, code) >>, [ y |-> 2025, m |-> 12, d |-> 31 ])

\* a batch of units, any start date
InitBatch ==
    \E batch \in Batches, date \in StartDates : InitRequest(batch, date)

\* src = u.original_code
SrcOf_NoDefault(u) == u.original_code

\* src = u.original_code or ""
SrcOf(u) == IF u.original_code = None THEN << >> ELSE u.original_code

\* obj = json.loads(u.model_dump_json()); obj["remediated_code"] = remediated_src
ResultOf(u, remediated_src) ==
    [ pgm_name        |-> u.pgm_name,
      original_code   |-> u.original_code,
      remediated_code |-> remediated_src ]

CallOf(s, day, ret) ==
    [ txt |-> s, today |-> day, new_txt |-> ret.new_txt, issues |-> ret.issues ]

ScanState == [ last_idx |-> last_idx, remediated_parts |-> remediated_parts,
               issues |-> issues ]

SetScanState(st) ==
    /\ last_idx' = st.last_idx
    /\ remediated_parts' = st.remediated_parts
    /\ issues' = st.issues

\* remediate_code on empty text: `if not txt: return txt, []`, and the handler's append
ReturnEmpty ==
    /\ pc = "loop"
    /\ ui <= Len(units)
    /\ SrcOf(units[ui]) = << >>
    /\ results' = Append(results, ResultOf(units[ui], << >>))
    /\ calls' = Append(calls, CallOf(<< >>, << >>, [ new_txt |-> << >>, issues |-> << >> ]))
    /\ ui' = ui + 1
    /\ UNCHANGED << clock, ticks, pass, units, pc, txt, matches, mi, last_idx,
                    remediated_parts, issues, today >>

\* remediate_code with an issue list shared by all calls
EnterScan_SharedIssues ==
    /\ pc = "loop"
    /\ ui <= Len(units)
    /\ SrcOf(units[ui]) # << >>
    /\ txt' = SrcOf(units[ui])
    /\ issues' = IF calls = << >> THEN << >> ELSE calls[Len(calls)].issues
    /\ matches' = SortedByStart(finditer(SrcOf(units[ui]), 0))
    /\ mi' = 1
    /\ last_idx' = 0
    /\ remediated_parts' = << >>
    /\ today' = strftime(clock)
    /\ pc' = "scan"
    /\ UNCHANGED << clock, ticks, pass, units, results, ui, calls >>

\* remediate_code up to the loop: the matches, the cursor, the date
EnterScan ==
    /\ pc = "loop"
    /\ ui <= Len(units)
    /\ SrcOf(units[ui]) # << >>
    /\ txt' = SrcOf(units[ui])
    /\ issues' = << >>
    /\ matches' = SortedByStart(finditer(SrcOf(units[ui]), 0))
    /\ mi' = 1
    /\ last_idx' = 0
    /\ remediated_parts' = << >>
    /\ today' = strftime(clock)
    /\ pc' = "scan"
    /\ UNCHANGED << clock, ticks, pass, units, results, ui, calls >>

\* `if not info: continue`
SkipMatch ==
    /\ pc = "scan"
    /\ mi <= Len(matches)
    /\ Branch(txt, matches[mi]) = "skip"
    /\ SetScanState(StepSkip(ScanState))
    /\ mi' = mi + 1
    /\ UNCHANGED << clock, ticks, pass, units, results, ui, pc, txt, matches, today, calls >>

\* the match stays: its line is an UPDATE/MODIFY/DELETE FROM of its table
KeepMatch ==
    /\ pc = "scan"
    /\ mi <= Len(matches)
    /\ Branch(txt, matches[mi]) = "protected"
    /\ SetScanState(StepProtected(txt, ScanState, matches[mi]))
    /\ mi' = mi + 1
    /\ UNCHANGED << clock, ticks, pass, units, results, ui, pc, txt, matches, today, calls >>

\* normal replacement, and its issue
ReplaceMatch ==
    /\ pc = "scan"
    /\ mi <= Len(matches)
    /\ Branch(txt, matches[mi]) = "replace"
    /\ SetScanState(StepReplace(txt, change_marker(today), ScanState, matches[mi]))
    /\ mi' = mi + 1
    /\ UNCHANGED << clock, ticks, pass, units, results, ui, pc, txt, matches, today, calls >>

\* the trailing text, the join and the return; the handler appends the result
ReturnUnit ==
    /\ pc = "scan"
    /\ mi > Len(matches)
    /\ LET ret == Finish(txt, ScanState)
       IN  /\ results' = Append(results, ResultOf(units[ui], ret.new_txt))
           /\ calls' = Append(calls, CallOf(txt, today, ret))
    /\ ui' = ui + 1
    /\ pc' = "loop"
    /\ ClearLocals
    /\ UNCHANGED << clock, ticks, pass, units >>

\* return results
Respond ==
    /\ pc = "loop"
    /\ ui > Len(units)
    /\ pc' = "done"
    /\ UNCHANGED << clock, ticks, pass, units, results, ui, txt, matches, mi,
                    last_idx, remediated_parts, issues, today, calls >>

\* the client sends the remediated code of its first request as a second request
Resubmit ==
    /\ pc = "done"
    /\ pass = 1
    /\ pass' = 2
    /\ units' = [ k \in DOMAIN results |->
                    [ pgm_name |-> results[k].pgm_name,
                      original_code |-> results[k].remediated_code ] ]
    /\ results' = << >>
    /\ ui' = 1
    /\ pc' = "loop"
    /\ UNCHANGED << clock, ticks, txt, matches, mi, last_idx, remediated_parts,
                    issues, today, calls >>

\* midnight
Tick ==
    /\ ticks < MaxTicks
    /\ ticks' = ticks + 1
    /\ clock' = NextDay(clock)
    /\ UNCHANGED << pass, units, results, ui, pc, txt, matches, mi, last_idx,
                    remediated_parts, issues, today, calls >>

Next ==
    \/ ReturnEmpty
    \/ EnterScan
    \/ SkipMatch
    \/ KeepMatch
    \/ ReplaceMatch
    \/ ReturnUnit
    \/ Respond
    \/ Resubmit

NextBatch == Next \/ Tick

Spec == Init /\ [][Next]_vars

SpecBatch == InitBatch /\ [][NextBatch]_vars

-----------------------------------------------------------------------------
(* What the claims speak of, stated without the operators of the scan.     *)

KeyLens == { Len(Keys[i]) : i \in DOMAIN Keys }

\* every character of s[a:b] is white space
AllSpace(s, a, b) == \A i \in a + 1 .. b : IsSpace(s[i])

\* every character of s[a:b] is a word character
AllWord(s, a, b) == \A i \in a + 1 .. b : IsWord(s[i])

\* s[a:b] is a vocabulary name, letter case aside
IsNameIgnoringCase(s, a, b) ==
    \E i \in DOMAIN Keys : Len(Keys[i]) = b - a /\ LitAtIgnoreCase(Keys[i], s, a)

\* the whole-word occurrences of vocabulary names in s, as spans << start, end >>
Occurrences(s) ==
    { << q[1], q[1] + q[2] >> :
        q \in { r \in (0 .. Len(s) - 1) \X KeyLens :
                   /\ r[1] + r[2] <= Len(s)
                   /\ ~ IsWordAt(s, r[1] - 1)
                   /\ ~ IsWordAt(s, r[1] + r[2])
                   /\ AllWord(s, r[1], r[1] + r[2])
                   /\ IsNameIgnoringCase(s, r[1], r[1] + r[2]) } }

\* the offsets of the newlines in s[a:b]
NewlinesIn(s, a, b) == { i \in a .. b - 1 : s[i + 1] = "\n" }

\* the text between the newlines around s[a:b], upper-cased
EnclosingLine(s, a, b) ==
    LET before == NewlinesIn(s, 0, a)
        after  == NewlinesIn(s, b, Len(s))
        from   == IF before = {} THEN 0 ELSE SetMax(before) + 1
        to     == IF after = {} THEN Len(s) ELSE SetMin(after)
    IN  Upper(Slice(s, from, to))

\* line is: white space, then the words ws separated by white space, then name, then
\* no word character
StartsWithWords(line, ws, name, from) ==
    \E a \in from .. Len(line) :
        /\ AllSpace(line, from, a)
        /\ LitAt(ws[1], line, a)
        /\ \E b \in a + Len(ws[1]) + 1 .. Len(line) :
              /\ AllSpace(line, a + Len(ws[1]), b)
              /\ IF Len(ws) = 1
                 THEN LitAt(name, line, b) /\ ~ IsWordAt(line, b + Len(name))
                 ELSE /\ LitAt(ws[2], line, b)
                      /\ \E c \in b + Len(ws[2]) + 1 .. Len(line) :
                            /\ AllSpace(line, b + Len(ws[2]), c)
                            /\ LitAt(name, line, c)
                            /\ ~ IsWordAt(line, c + Len(name))

\* the line of the match is an UPDATE, MODIFY or DELETE FROM of the matched table
InWriteLine(s, m) ==
    LET line == EnclosingLine(s, m.start, m.end)
        name == Upper(m.name)
    IN  \/ StartsWithWords(line, << kwUPDATE >>, name, 0)
        \/ StartsWithWords(line, << kwMODIFY >>, name, 0)
        \/ StartsWithWords(line, << kwDELETE, kwFROM >>, name, 0)

\* the upper-cased text of the match is a key of the vocabulary
Known(m) == HasKey(Upper(m.name))

\* Classification: Rewritable, Protected
Rewritable(s, m) == Known(m) /\ ~ InWriteLine(s, m)
Protected(s, m)  == Known(m) /\ InWriteLine(s, m)

\* the matches of s in the order of their start offsets
MatchesOf(s) == SortedByStart(finditer(s, 0))

RewritableOf(s) == SelectSeq(MatchesOf(s), LAMBDA m : Rewritable(s, m))

\* what a rewritten match is replaced by
Substitute(m, day) == Get(Upper(m.name)).new \o change_marker(day)

\* s with the matches ms, given left to right, replaced from the last to the first
RECURSIVE Rewritten(_, _, _)
Rewritten(s, ms, day) ==
    IF ms = << >> THEN s
    ELSE LET m == ms[Len(ms)]
         IN  Rewritten(Slice(s, 0, m.start) \o Substitute(m, day) \o Slice(s, m.end, Len(s)),
                       SubSeq(ms, 1, Len(ms) - 1), day)

\* remediate_code has just returned; what it was called with and what it returned
Returned == pc = "loop" /\ calls # << >>
LastCall == calls[Len(calls)]

\* the scan is at a match / has just stepped over one
AtMatch == pc = "scan" /\ mi <= Len(matches)
Stepped == AtMatch /\ pc' = "scan" /\ mi' = mi + 1

\* what the step over matches[mi] did
Kept ==
    /\ issues' = issues
    /\ Join(remediated_parts') = Join(remediated_parts) \o Slice(txt, last_idx, matches[mi].end)
    /\ last_idx' = matches[mi].end

Replaced ==
    /\ Len(issues') = Len(issues) + 1
    /\ SubSeq(issues', 1, Len(issues)) = issues
    /\ Known(matches[mi])
    /\ Join(remediated_parts') =
          Join(remediated_parts) \o Slice(txt, last_idx, matches[mi].start)
              \o Substitute(matches[mi], today)
    /\ last_idx' = matches[mi].end

Skipped == UNCHANGED << last_idx, remediated_parts, issues >>

-----------------------------------------------------------------------------
(* C1: a match is kept, with no issue, exactly when its line is an UPDATE, *)
(* MODIFY or DELETE FROM of its own table; every other match is replaced   *)
(* and gives one issue.                                                    *)
C1_AsClaimed ==
    [][ Stepped => IF InWriteLine(txt, matches[mi]) THEN Kept ELSE Replaced ]_vars

(* C1 as amended: that holds of the matches whose upper-cased text is a key *)
(* of the vocabulary; a match whose upper-cased text is no key is stepped  *)
(* over: kept, with no issue, and the cursor stays.                        *)
C1_Amended ==
    [][ Stepped =>
          IF ~ Known(matches[mi]) THEN Skipped
          ELSE IF InWriteLine(txt, matches[mi]) THEN Kept ELSE Replaced ]_vars

\* a scan over a line that updates one table and names another: the first kept, the
\* second replaced
C1_Witness ==
    /\ pc = "scan"
    /\ mi > Len(matches)
    /\ Len(matches) = 2
    /\ Protected(txt, matches[1])
    /\ Rewritable(txt, matches[2])
    /\ EnclosingLine(txt, matches[1].start, matches[1].end)
         = EnclosingLine(txt, matches[2].start, matches[2].end)
    /\ Len(issues) = 1

-----------------------------------------------------------------------------
(* C2: the issues of a call are, in order, those of the Rewritable matches *)
(* of its text, one each, by strictly increasing start offset.             *)
IssuesFollowRewritable(c) ==
    LET rw == RewritableOf(c.txt)
    IN  /\ Len(c.issues) = Len(rw)
        /\ \A i \in DOMAIN rw :
              /\ c.issues[i].table = Upper(rw[i].name)
              /\ c.issues[i].snippet = snippet_at(c.txt, rw[i].start, rw[i].end)
              /\ i < Len(rw) => rw[i].start < rw[i + 1].start

C2_Theorem == Returned => IssuesFollowRewritable(LastCall)

\* a call that returned two issues and kept a match
C2_Witness ==
    \E k \in DOMAIN calls :
        /\ Len(calls[k].issues) = 2
        /\ \E i \in DOMAIN MatchesOf(calls[k].txt) :
              Protected(calls[k].txt, MatchesOf(calls[k].txt)[i])

-----------------------------------------------------------------------------
(* C3: a second pass over the remediated code of a first pass returns it   *)
(* unchanged, with no issue.                                               *)
SecondPassDone == pc = "done" /\ pass = 2

FirstCall(k)  == calls[k]
SecondCall(k) == calls[Len(units) + k]

NoFurtherRewrite(k) ==
    /\ results[k].remediated_code = units[k].original_code
    /\ SecondCall(k).issues = << >>

C3_AsClaimed == SecondPassDone => \A k \in DOMAIN results : NoFurtherRewrite(k)

\* a Protected match of s stands behind a Rewritable match on the same line
ProtectedBehindRewritable(s) ==
    LET ms == MatchesOf(s)
    IN  \E i, j \in DOMAIN ms :
            /\ i < j
            /\ Rewritable(s, ms[i])
            /\ Protected(s, ms[j])
            /\ \A p \in ms[i].end + 1 .. ms[j].start : s[p] # "\n"

\* the matches of s the scan leaves in the text
LeftInText(s) == SelectSeq(MatchesOf(s), LAMBDA m : ~ Rewritable(s, m))

(* C3 as amended: the second pass matches nothing but the matches the first *)
(* pass left in the text (no replacement identifier, no annotation), and   *)
(* it returns the text unchanged with no issue unless, in the original     *)
(* text, a Protected match stood behind a Rewritable match on the same     *)
(* line: the annotation put after the Rewritable match ends the line, and  *)
(* the second pass may rewrite the Protected match.                        *)
C3_Amended ==
    SecondPassDone =>
        \A k \in DOMAIN results :
            /\ Len(MatchesOf(SecondCall(k).txt)) = Len(LeftInText(FirstCall(k).txt))
            /\ ~ ProtectedBehindRewritable(FirstCall(k).txt) => NoFurtherRewrite(k)

\* a second pass over a text whose first pass kept one match and replaced another
C3_Witness ==
    /\ SecondPassDone
    /\ Len(FirstCall(1).issues) = 1
    /\ \E i \in DOMAIN MatchesOf(FirstCall(1).txt) :
          Protected(FirstCall(1).txt, MatchesOf(FirstCall(1).txt)[i])
    /\ ~ ProtectedBehindRewritable(FirstCall(1).txt)
    /\ NoFurtherRewrite(1)

-----------------------------------------------------------------------------
(* C4: every issue records the legacy table, the replacement name as       *)
(* target_name, the statement "Replaced {name} with {replacement}" and the *)
(* note of the Reference Entry, used_fields empty and ambiguous false.     *)
IssueAsClaimed(it, m) ==
    LET name  == Upper(m.name)
        entry == Get(name)
    IN  /\ it.table = name
        /\ it.target_name = entry.new
        /\ it.suggested_statement = txtReplaced \o name \o txtWith \o entry.new
        /\ it.note = entry.note
        /\ it.used_fields = << >>
        /\ it.ambiguous = FALSE

C4_AsClaimed ==
    Returned =>
        LET rw == RewritableOf(LastCall.txt)
        IN  \A i \in DOMAIN LastCall.issues \cap DOMAIN rw :
                IssueAsClaimed(LastCall.issues[i], rw[i])

(* C4 as amended: target_name is the legacy table name too (target_type is *)
(* "Table"), and the statement is "Replaced {name} with {replacement}."    *)
(* with a full stop; the replacement name stands in the statement only.    *)
IssueAsAmended(it, m) ==
    LET name  == Upper(m.name)
        entry == Get(name)
    IN  /\ it.table = name
        /\ it.target_type = "Table"
        /\ it.target_name = name
        /\ it.suggested_statement = txtReplaced \o name \o txtWith \o entry.new \o << "." >>
        /\ it.note = entry.note
        /\ it.used_fields = << >>
        /\ it.ambiguous = FALSE

C4_Amended ==
    Returned =>
        LET rw == RewritableOf(LastCall.txt)
        IN  /\ Len(LastCall.issues) = Len(rw)
            /\ \A i \in DOMAIN LastCall.issues : IssueAsAmended(LastCall.issues[i], rw[i])

\* a call that returned the issues of two different tables
C4_Witness ==
    /\ Returned
    /\ Len(LastCall.issues) = 2
    /\ LastCall.issues[1].table # LastCall.issues[2].table

-----------------------------------------------------------------------------
(* C5: the matches are the whole-word occurrences of vocabulary names, no  *)
(* word character before or after any of them, none overlapping another: a *)
(* token that is a longer name is matched as that name, a name inside a    *)
(* longer identifier is not matched.                                       *)
C5_Theorem ==
    (pc = "scan" /\ mi = 1) =>
        /\ { << matches[i].start, matches[i].end >> : i \in DOMAIN matches } = Occurrences(txt)
        /\ \A i \in DOMAIN matches :
              /\ matches[i].name = Slice(txt, matches[i].start, matches[i].end)
              /\ ~ IsWordAt(txt, matches[i].start - 1)
              /\ ~ IsWordAt(txt, matches[i].end)
              /\ i < Len(matches) => matches[i].end <= matches[i + 1].start

\* MARCH after other text, matched as one token of five letters
C5_Witness ==
    /\ pc = "scan"
    /\ mi = 1
    /\ Len(matches) = 1
    /\ Upper(matches[1].name) = fMarc \o << "H" >>
    /\ matches[1].start > 0

-----------------------------------------------------------------------------
(* C6: letter case changes neither what is matched nor how it is           *)
(* classified nor what is emitted: the call returns what it returns for    *)
(* the upper-cased text, the kept text and the snippets in their own case. *)
\* b is a with some letters upper-cased
UpperCasedFrom(a, b) ==
    /\ Len(a) = Len(b)
    /\ \A i \in DOMAIN a : b[i] = a[i] \/ b[i] = UpperChar(a[i])

SameButCase(c, u) ==
    /\ UpperCasedFrom(c.new_txt, u.new_txt)
    /\ Len(c.issues) = Len(u.issues)
    /\ \A i \in DOMAIN c.issues :
          /\ [ c.issues[i] EXCEPT !.snippet = << >> ] = [ u.issues[i] EXCEPT !.snippet = << >> ]
          /\ Upper(c.issues[i].snippet) = u.issues[i].snippet

C6_Theorem ==
    Returned =>
        /\ \A i \in DOMAIN LastCall.issues : LastCall.issues[i].table = Upper(LastCall.issues[i].table)
        /\ { << m[1], m[2] >> : m \in Occurrences(LastCall.txt) }
             = { << m[1], m[2] >> : m \in Occurrences(Upper(LastCall.txt)) }
        /\ SameButCase(LastCall, remediate_with(Upper(LastCall.txt), LastCall.today))

\* a call on a text in lower case: one match kept behind a lower-case keyword, one replaced
C6_Witness ==
    /\ Returned
    /\ Len(LastCall.issues) = 1
    /\ \E i \in DOMAIN MatchesOf(LastCall.txt) :
          LET m == MatchesOf(LastCall.txt)[i]
          IN  Protected(LastCall.txt, m) /\ m.name # Upper(m.name)
    /\ LitAt(fModify, LastCall.txt, 0)

-----------------------------------------------------------------------------
(* C7: every unit is answered; a text with no vocabulary occurrence, the   *)
(* empty text included, is returned unchanged with no issue; an absent     *)
(* original_code gives the empty remediated_code.                          *)
C7_Theorem ==
    /\ pc = "done" => Len(results) = Len(units)
    /\ Returned /\ Occurrences(LastCall.txt) = {} =>
          LastCall.new_txt = LastCall.txt /\ LastCall.issues = << >>
    /\ \A k \in DOMAIN results :
          /\ units[k].original_code = None => results[k].remediated_code = << >>
          /\ units[k].original_code = << >> => results[k].remediated_code = << >>

\* a batch answered for an absent original_code and for a text with no occurrence
C7_Witness ==
    /\ pc = "done"
    /\ pass = 1
    /\ Len(results) = 2
    /\ units[1].original_code = None
    /\ units[2].original_code = fUpdate
    /\ results[2].remediated_code = fUpdate

-----------------------------------------------------------------------------
(* C8: the snippet of an issue is the original text from 60 characters     *)
(* before the match, or from offset 0, to 60 characters after it, or to    *)
(* the end of the text.                                                    *)
IsWindow(sn, s, m) ==
    \E a \in 0 .. m.start :
        /\ (a = 0 /\ m.start <= 60) \/ m.start - a = 60
        /\ \E b \in m.end .. Len(s) :
              /\ (b = Len(s) /\ Len(s) - m.end <= 60) \/ b - m.end = 60
              /\ Len(sn) = b - a
              /\ \A i \in 1 .. Len(sn) : sn[i] = s[a + i]
              /\ Slice(sn, m.start - a, m.end - a) = m.name

C8_Theorem ==
    Returned =>
        LET rw == RewritableOf(LastCall.txt)
        IN  /\ Len(LastCall.issues) = Len(rw)
            /\ \A i \in DOMAIN LastCall.issues :
                  IsWindow(LastCall.issues[i].snippet, LastCall.txt, rw[i])

\* two issues: the first match at offset 0 with 60 characters after it in its snippet,
\* the second at the end of the text with 60 characters before it
C8_Witness ==
    /\ Returned
    /\ Len(LastCall.issues) = 2
    /\ LET rw == RewritableOf(LastCall.txt)
       IN  /\ rw[1].start = 0
           /\ rw[1].end + 60 < Len(LastCall.txt)
           /\ rw[2].end = Len(LastCall.txt)
           /\ rw[2].start > 60
    /\ Len(LastCall.issues[1].snippet) = Len(LastCall.issues[2].snippet)

-----------------------------------------------------------------------------
(* C9: the cursor never goes back, never passes the next match or the end  *)
(* of the text, and the text returned is the original with every           *)
(* Rewritable match replaced by its replacement and the annotation, all    *)
(* else copied once, in order.                                             *)
\* the matches the scan has stepped over
Done == SubSeq(matches, 1, mi - 1)

CursorInv ==
    /\ pc = "scan" =>
          /\ 0 <= last_idx /\ last_idx <= Len(txt)
          /\ AtMatch => last_idx <= matches[mi].start
          /\ Join(remediated_parts) \o Slice(txt, last_idx, Len(txt))
               = Rewritten(txt, SelectSeq(Done, LAMBDA m : Rewritable(txt, m)), today)
    /\ Returned /\ LastCall.txt # << >> =>
          LastCall.new_txt = Rewritten(LastCall.txt, RewritableOf(LastCall.txt), LastCall.today)

CursorStep == (pc = "scan" /\ pc' = "scan") => last_idx' >= last_idx

C9_Theorem == []CursorInv /\ [][CursorStep]_vars

\* a scan that has kept one match, replaced another, and stands before a third
C9_Witness ==
    /\ AtMatch
    /\ mi = 3
    /\ last_idx > 0
    /\ \E i, j \in 1 .. 2 : Protected(txt, matches[i]) /\ Rewritable(txt, matches[j])

-----------------------------------------------------------------------------
(* C10: one result per unit, in order, and what a call returns depends on  *)
(* its text alone: two calls on the same text return the same text and the *)
(* same issues.                                                            *)
OnePerUnit ==
    /\ Len(results) = ui - 1
    /\ pc = "done" => Len(results) = Len(units)
    /\ \A k \in DOMAIN results :
          /\ results[k].pgm_name = units[k].pgm_name
          /\ results[k].original_code = units[k].original_code

C10_AsClaimed ==
    /\ OnePerUnit
    /\ \A i, j \in DOMAIN calls :
          calls[i].txt = calls[j].txt =>
              calls[i].new_txt = calls[j].new_txt /\ calls[i].issues = calls[j].issues

(* C10 as amended: the remediated text depends on the text and on the date *)
(* of the call, which the annotation carries; the issues depend on the     *)
(* text alone.                                                             *)
C10_Amended ==
    /\ OnePerUnit
    /\ \A i, j \in DOMAIN calls :
          calls[i].txt = calls[j].txt =>
              /\ calls[i].issues = calls[j].issues
              /\ calls[i].today = calls[j].today => calls[i].new_txt = calls[j].new_txt

\* two units with the same code, remediated on two dates
C10_Witness ==
    /\ pc = "done"
    /\ Len(calls) = 2
    /\ calls[1].txt = calls[2].txt
    /\ calls[1].issues # << >>
    /\ calls[1].today # calls[2].today
    /\ calls[1].new_txt # calls[2].new_txt

=============================================================================
